---- MODULE Spec2Model ----
(***************************************************************************)
(* A model of the pyganttccpm project pipeline:                            *)
(*   loader.process_project_data / loader.load_process_project_data        *)
(*   plotter.plot_project_gantt (copies, graph, layout and date range)     *)
(*   graph_utils.add_global_start_end                                      *)
(*                                                                         *)
(* Python values are records [k, n, s]: k is the kind of the value, n its  *)
(* number and s its text.  Instants and durations are counted in ticks of  *)
(* half a day (Day ticks make one day), so that the offsets 0.5 and 1.5    *)
(* are representable.  A dict is the sequence of its [key, val] entries in *)
(* insertion order.  The pass-through attributes of a node of the graph    *)
(* are not modelled: the task map carries the same data.  Of the figure    *)
(* plot_project_gantt returns, the model keeps the vertical levels, the    *)
(* limits of the time axis and the origin of the day index; the drawing of *)
(* bars, labels and arrows is not modelled.                                *)
(***************************************************************************)
EXTENDS Integers, Sequences, FiniteSets, TLC

VARIABLES
    pc,                 \* position in the pipeline
    project_info_dict,  \* argument of process_project_data
    tasks_list,         \* argument of process_project_data
    file,               \* the file handed to load_process_project_data
    today,              \* datetime.now() truncated to midnight
    ret,                \* outcome of process_project_data
    loaded,             \* outcome of load_process_project_data
    G,                  \* the networkx DiGraph: [nodes, edges]
    tasks,              \* task map handed to add_global_start_end
    stream_map,         \* stream map handed to add_global_start_end
    entry,              \* G, tasks and stream_map at the entry of the last call
    added,              \* outcome of the last call of add_global_start_end
    calls,              \* calls of add_global_start_end so far
    plot                \* outcome of plot_project_gantt

vars == <<pc, project_info_dict, tasks_list, file, today, ret, loaded,
          G, tasks, stream_map, entry, added, calls, plot>>

----------------------------------------------------------------------------
(* Bounds of the model *)

MaxTasks == 2
MaxCalls == 2

(* One day, in ticks *)
Day == 2

----------------------------------------------------------------------------
(* Python values *)

Absent == [k |-> "absent", n |-> 0, s |-> ""]
Null == [k |-> "null", n |-> 0, s |-> ""]
Int_(i) == [k |-> "int", n |-> i, s |-> ""]
Num(h) == [k |-> "num", n |-> h, s |-> ""]
Str(s) == [k |-> "str", n |-> 0, s |-> s]
List(len) == [k |-> "list", n |-> len, s |-> ""]
Bool(b) == [k |-> "bool", n |-> IF b THEN 1 ELSE 0, s |-> ""]
Dt(t) == [k |-> "dt", n |-> t, s |-> ""]
Td(d) == [k |-> "td", n |-> d, s |-> ""]
Type(name) == [k |-> "type", n |-> 0, s |-> name]

\* dict.get(key, default) on a raw record field
Get(v, default) == IF v.k = "absent" THEN default ELSE v

\* bool(v)
Truthy(v) ==
    CASE v.k \in {"absent", "null"} -> FALSE
      [] v.k \in {"int", "num", "list", "bool"} -> v.n # 0
      [] v.k = "str" -> v.s # ""
      [] OTHER -> TRUE

----------------------------------------------------------------------------
(* Text *)

\* str.lower() and str.upper() on the texts of the model
Lower(s) ==
    CASE s = "Continuous" -> "continuous"
      [] s = "STANDARD" -> "standard"
      [] s = "CRITICAL" -> "critical"
      [] s = "System" -> "system"
      [] OTHER -> s

Upper(s) ==
    CASE s = "critical" -> "CRITICAL"
      [] s = "Feeding" -> "FEEDING"
      [] s = "system" -> "SYSTEM"
      [] s = "bogus" -> "BOGUS"
      [] OTHER -> s

\* The characters of the texts used as predecessor fields
Chars(s) ==
    CASE s = "1" -> <<"1">>
      [] s = "2" -> <<"2">>
      [] s = "9" -> <<"9">>
      [] s = "1,2" -> <<"1", ",", "2">>
      [] s = " 2 , 1" -> <<" ", "2", " ", ",", " ", "1">>
      [] s = "1,1" -> <<"1", ",", "1">>
      [] s = "2,x" -> <<"2", ",", "x">>
      [] s = "1,,9" -> <<"1", ",", ",", "9">>
      [] s = "12" -> <<"1", "2">>
      [] s = "1 2" -> <<"1", " ", "2">>
      [] s = " " -> <<" ">>
      [] s = "C1" -> <<"C", "1">>
      [] s = "C2" -> <<"C", "2">>
      [] s = "System" -> <<"S", "y", "s", "t", "e", "m">>
      [] s = "Unknown" -> <<"U", "n", "k", "n", "o", "w", "n">>
      [] s = "beta" -> <<"b", "e", "t", "a">>
      [] s = "bogus" -> <<"b", "o", "g", "u", "s">>
      [] OTHER -> <<>>

\* ord(c)
Ord(c) ==
    CASE c = " " -> 32 [] c = "," -> 44
      [] c = "1" -> 49 [] c = "2" -> 50 [] c = "9" -> 57
      [] c = "C" -> 67 [] c = "S" -> 83 [] c = "U" -> 85
      [] c = "a" -> 97 [] c = "b" -> 98 [] c = "e" -> 101 [] c = "g" -> 103
      [] c = "k" -> 107 [] c = "m" -> 109 [] c = "n" -> 110 [] c = "o" -> 111
      [] c = "s" -> 115 [] c = "t" -> 116 [] c = "u" -> 117 [] c = "w" -> 119
      [] c = "x" -> 120 [] c = "y" -> 121
      [] OTHER -> 0

\* a < b on two texts, by code points
RECURSIVE TextLess(_, _)
TextLess(a, b) ==
    IF b = <<>> THEN FALSE
    ELSE IF a = <<>> THEN TRUE
    ELSE IF Ord(a[1]) # Ord(b[1]) THEN Ord(a[1]) < Ord(b[1])
    ELSE TextLess(Tail(a), Tail(b))

Digits == <<"0", "1", "2", "3", "4", "5", "6", "7", "8", "9">>

IsDigit(c) == \E i \in 1..10 : Digits[i] = c

DigitVal(c) == (CHOOSE i \in 1..10 : Digits[i] = c) - 1

\* str.split(sep) on a sequence of characters: the sequence of the pieces
RECURSIVE SplitFrom(_, _, _, _)
SplitFrom(cs, sep, i, cur) ==
    IF i > Len(cs) THEN <<cur>>
    ELSE IF cs[i] = sep THEN <<cur>> \o SplitFrom(cs, sep, i + 1, <<>>)
    ELSE SplitFrom(cs, sep, i + 1, Append(cur, cs[i]))

Split(cs, sep) == SplitFrom(cs, sep, 1, <<>>)

\* str.strip(): leading and trailing blanks removed
RECURSIVE LStrip(_)
LStrip(cs) == IF cs # <<>> /\ Head(cs) = " " THEN LStrip(Tail(cs)) ELSE cs

RECURSIVE RStrip(_)
RStrip(cs) ==
    IF cs # <<>> /\ cs[Len(cs)] = " " THEN RStrip(SubSeq(cs, 1, Len(cs) - 1)) ELSE cs

Strip(cs) == RStrip(LStrip(cs))

\* int(text): [exc, n]; a text that is no decimal numeral is a ValueError
RECURSIVE DecimalValue(_)
DecimalValue(cs) ==
    IF cs = <<>> THEN 0
    ELSE 10 * DecimalValue(SubSeq(cs, 1, Len(cs) - 1)) + DigitVal(cs[Len(cs)])

ParseInt(cs) ==
    LET t == Strip(cs)
    IN IF t # <<>> /\ \A i \in 1..Len(t) : IsDigit(t[i])
       THEN [exc |-> "", n |-> DecimalValue(t)]
       ELSE [exc |-> "ValueError", n |-> 0]

\* float(v): [exc, n] with n in ticks
Float(v) ==
    CASE v.k = "num" -> [exc |-> "", n |-> v.n]
      [] v.k \in {"int", "bool"} -> [exc |-> "", n |-> v.n * Day]
      [] v.k = "str" ->
            IF v.s = "1.5" THEN [exc |-> "", n |-> 3]
            ELSE IF v.s = "2" THEN [exc |-> "", n |-> 2 * Day]
            ELSE [exc |-> "ValueError", n |-> 0]
      [] OTHER -> [exc |-> "TypeError", n |-> 0]

\* dateutil.parser.parse(v) / datetime.fromisoformat(v): [exc, n]
ParseDate(v) ==
    IF v.k # "str" THEN [exc |-> "TypeError", n |-> 0]
    ELSE CASE v.s = "2025-01-01" -> [exc |-> "", n |-> 0]
           [] v.s = "2025-01-01T12:00:00" -> [exc |-> "", n |-> 1]
           [] v.s = "2025-01-03T12:00:00" -> [exc |-> "", n |-> 5]
           [] v.s = "2025-01-10" -> [exc |-> "", n |-> 18]
           [] OTHER -> [exc |-> "ValueError", n |-> 0]

\* datetime.replace(hour=0, minute=0, second=0, microsecond=0)
Midnight(t) == t - (t % Day)

----------------------------------------------------------------------------
(* Dicts *)

DictHas(d, key) == \E i \in 1..Len(d) : d[i].key = key

DictGet(d, key, default) ==
    IF DictHas(d, key) THEN d[CHOOSE i \in 1..Len(d) : d[i].key = key].val
    ELSE default

\* d[key] = val: an existing key keeps its place
DictSet(d, key, val) ==
    IF DictHas(d, key)
    THEN [i \in 1..Len(d) |-> IF d[i].key = key THEN [key |-> key, val |-> val] ELSE d[i]]
    ELSE Append(d, [key |-> key, val |-> val])

Keys(d) == {d[i].key : i \in 1..Len(d)}

----------------------------------------------------------------------------
(* config.py *)

START_NODE == Str("START")
END_NODE == Str("END")

TaskTypeNames == {"UNASSIGNED", "CRITICAL", "FEEDING", "FREE", "BUFFER", "SYSTEM"}

----------------------------------------------------------------------------
(* loader.process_project_data *)

\* The 8-tuple a loader returns
Tuple8(start, tsk, deps, sm, cal, name, publish, synthetic) ==
    [project_start_date |-> start, tasks |-> tsk, dependencies |-> deps,
     stream_map |-> sm, calendar_type |-> cal, project_name |-> name,
     project_publish_date |-> publish, is_synthetic_start_date |-> synthetic]

\* A container item of the tuple, or None in its place
Some(x) == [none |-> FALSE, v |-> x]
NoneItem == [none |-> TRUE, v |-> <<>>]

AllNone == Tuple8(Null, NoneItem, NoneItem, NoneItem, Null, Null, Null, Null)

Returned(val) == [st |-> "returned", exc |-> "", val |-> val]
Raised(exc) == [st |-> "raised", exc |-> exc, val |-> AllNone]
NotCalled == [st |-> "none", exc |-> "", val |-> AllNone]

\* Mutant of CalendarType: the value is compared as it was written
CalendarTypeCaseSensitive(info) ==
    LET raw == Get(info.calendar, Str("standard"))
    IN IF raw.k # "str" THEN [exc |-> "AttributeError", s |-> ""]
       ELSE IF raw.s \in {"standard", "continuous"}
            THEN [exc |-> "", s |-> raw.s]
            ELSE [exc |-> "", s |-> "standard"]

\* lines 22-30: the calendar type; [exc, s]
CalendarType(info) ==
    LET raw == Get(info.calendar, Str("standard"))
    IN IF raw.k # "str" THEN [exc |-> "AttributeError", s |-> ""]
       ELSE IF Lower(raw.s) \in {"standard", "continuous"}
            THEN [exc |-> "", s |-> Lower(raw.s)]
            ELSE [exc |-> "", s |-> "standard"]

\* lines 32-46: the publish date, None when absent or unparseable
PublishDate(info) ==
    LET raw == Get(info.publish_date, Null)
    IN IF Truthy(raw) /\ ParseDate(raw).exc = "" THEN Dt(ParseDate(raw).n) ELSE Null

\* Mutant of ParsedStartDate: the time of day is kept
ParsedStartDateWithTime(info) ==
    LET raw == Get(info.start_date, Null)
    IN IF Truthy(raw) /\ ParseDate(raw).exc = ""
       THEN [valid |-> TRUE, t |-> ParseDate(raw).n]
       ELSE [valid |-> FALSE, t |-> 0]

\* lines 49-68: the supplied start date; [valid, t]
ParsedStartDate(info) ==
    LET raw == Get(info.start_date, Null)
    IN IF Truthy(raw) /\ ParseDate(raw).exc = ""
       THEN [valid |-> TRUE, t |-> Midnight(ParseDate(raw).n)]
       ELSE [valid |-> FALSE, t |-> 0]

\* lines 78-92: the minimum start offset over the records whose start converts
\* to a float; Inf stands for math.inf
Inf == 1000000

RECURSIVE ScanMinOffset(_, _, _)
ScanMinOffset(tl, i, min_offset) ==
    IF i > Len(tl) THEN min_offset
    ELSE LET offset == Float(Get(tl[i].start, Int_(0)))
         IN IF offset.exc # "" THEN ScanMinOffset(tl, i + 1, min_offset)
            ELSE ScanMinOffset(tl, i + 1,
                               IF offset.n < min_offset THEN offset.n ELSE min_offset)

MinOffset(tl) ==
    LET m == ScanMinOffset(tl, 1, Inf) IN IF m = Inf THEN 0 ELSE m

\* Mutant of SyntheticStartDate: the minimum offset is added, not subtracted
SyntheticStartDateLater(tl, now) == now + MinOffset(tl)

\* lines 70-99: the synthetic start date
SyntheticStartDate(tl, now) == now - MinOffset(tl)

\* Mutant of Remaining: the cap at the total duration is missing
RemainingUncapped(item, total) ==
    LET remaining_offset == Get(item.remaining, Null)
        f == Float(remaining_offset)
    IN IF remaining_offset.k = "null" \/ f.exc # "" THEN [td |-> 0, has |-> FALSE]
       ELSE [td |-> IF f.n < 0 THEN 0 ELSE f.n, has |-> TRUE]

\* lines 126-140: remaining duration and has_remaining_data; [td, has]
Remaining(item, total) ==
    LET remaining_offset == Get(item.remaining, Null)
        f == Float(remaining_offset)
        nonneg == IF f.n < 0 THEN 0 ELSE f.n
    IN IF remaining_offset.k = "null" THEN [td |-> 0, has |-> FALSE]
       ELSE IF f.exc # "" THEN [td |-> 0, has |-> FALSE]
       ELSE [td |-> IF nonneg > total THEN total ELSE nonneg, has |-> TRUE]

\* lines 142-146: the task type; [exc, s]
TaskTypeOf(item) ==
    LET raw == Get(item.type, Str("UNASSIGNED"))
    IN IF raw.k # "str" THEN [exc |-> "AttributeError", s |-> ""]
       ELSE IF Upper(raw.s) \in TaskTypeNames THEN [exc |-> "", s |-> Upper(raw.s)]
       ELSE [exc |-> "", s |-> "UNASSIGNED"]

\* lines 148-150
TaskTags(item) ==
    LET raw == Get(item.tags, List(0)) IN IF raw.k = "list" THEN raw ELSE List(0)

\* lines 152-166: the entry of the task map
TaskData(id, start, end, total, completed, remaining, has, type, chain, resources, preds, url, tags, duration) ==
    [id |-> id, start |-> start, end |-> end, total_duration |-> total,
     completed_duration |-> completed, remaining_duration |-> remaining,
     has_remaining_data |-> has, type |-> type, chain |-> chain,
     resources |-> resources, predecessors_str |-> preds, url |-> url,
     tags |-> tags, duration |-> duration]

\* Mutant of ClampEnd: the end instant is taken as computed
ClampEndNever(start_datetime, end_datetime) == end_datetime

\* lines 119-125: the end instant, clamped to the start
ClampEnd(start_datetime, end_datetime) ==
    IF end_datetime <= start_datetime THEN start_datetime ELSE end_datetime

\* lines 112-172: one iteration of the first pass over acc = [tasks, stream_map,
\* id_to_name, exc]
FirstPassStep(item, project_start_date, acc) ==
    LET task_id == Get(item.id, Null)
        task_name == Get(item.name, Null)
        registered == [acc EXCEPT !.id_to_name = DictSet(@, task_id, task_name)]
        start_offset == Float(Get(item.start, Int_(0)))
        finish_offset ==
            IF item.finish.k = "absent" THEN start_offset ELSE Float(item.finish)
        start_datetime == project_start_date + start_offset.n
        end_datetime == ClampEnd(start_datetime, project_start_date + finish_offset.n)
        total == end_datetime - start_datetime
        rem == Remaining(item, total)
        type == TaskTypeOf(item)
        data == TaskData(task_id, Dt(start_datetime), Dt(end_datetime), Td(total),
                         Td(total - rem.td), Td(rem.td), Bool(rem.has), Type(type.s),
                         Get(item.chain, Str("Unknown")), Get(item.resources, Str("")),
                         Get(item.predecessors, Str("")), Get(item.url, Null),
                         TaskTags(item), Absent)
    IN IF task_id.k = "null" \/ task_name.k = "null" THEN acc
       ELSE IF start_offset.exc # "" \/ finish_offset.exc # "" THEN registered
       ELSE IF type.exc # "" THEN [registered EXCEPT !.exc = type.exc]
       ELSE [registered EXCEPT !.tasks = DictSet(@, task_name, data),
                               !.stream_map = DictSet(@, task_name, data.chain)]

\* Mutant of FirstPass: a record without id or name ends the pass
RECURSIVE FirstPassBreaks(_, _, _, _)
FirstPassBreaks(tl, i, project_start_date, acc) ==
    IF i > Len(tl) \/ acc.exc # "" THEN acc
    ELSE IF Get(tl[i].id, Null).k = "null" \/ Get(tl[i].name, Null).k = "null" THEN acc
    ELSE FirstPassBreaks(tl, i + 1, project_start_date,
                         FirstPassStep(tl[i], project_start_date, acc))

RECURSIVE FirstPass(_, _, _, _)
FirstPass(tl, i, project_start_date, acc) ==
    IF i > Len(tl) \/ acc.exc # "" THEN acc
    ELSE FirstPass(tl, i + 1, project_start_date,
                   FirstPassStep(tl[i], project_start_date, acc))

\* lines 181-183: the ids of a predecessor field; [exc, ids]
RECURSIVE ParseTokens(_, _)
ParseTokens(pieces, i) ==
    IF i > Len(pieces) THEN [exc |-> "", ids |-> <<>>]
    ELSE IF Strip(pieces[i]) = <<>> THEN ParseTokens(pieces, i + 1)
    ELSE LET p == ParseInt(pieces[i])
             rest == ParseTokens(pieces, i + 1)
         IN IF p.exc # "" THEN [exc |-> p.exc, ids |-> <<>>]
            ELSE IF rest.exc # "" THEN rest
            ELSE [exc |-> "", ids |-> <<p.n>> \o rest.ids]

\* Mutant of PredIds: a token that is no integer is skipped, the others are kept
RECURSIVE ParseTokensLenient(_, _)
ParseTokensLenient(pieces, i) ==
    IF i > Len(pieces) THEN <<>>
    ELSE (IF ParseInt(pieces[i]).exc = "" THEN <<ParseInt(pieces[i]).n>> ELSE <<>>)
         \o ParseTokensLenient(pieces, i + 1)

PredIdsLenient(pred_str) ==
    [exc |-> "", ids |-> ParseTokensLenient(Split(Chars(pred_str.s), ","), 1)]

PredIds(pred_str) == ParseTokens(Split(Chars(pred_str.s), ","), 1)

\* Mutant of ResolveIds: an id resolves only when its record was registered
\* before the record of the task, as in a single pass over the records
RECURSIVE ResolveIdsEarlierOnly(_, _, _, _)
ResolveIdsEarlierOnly(ids, i, id_to_name, task_name) ==
    IF i > Len(ids) THEN <<>>
    ELSE LET pred_name == DictGet(id_to_name, Int_(ids[i]), Null)
             earlier == \E m, n \in 1..Len(id_to_name) :
                            /\ m < n
                            /\ id_to_name[m].key = Int_(ids[i])
                            /\ id_to_name[n].val = task_name
         IN (IF Truthy(pred_name) /\ earlier THEN << <<pred_name, task_name>> >> ELSE <<>>)
            \o ResolveIdsEarlierOnly(ids, i + 1, id_to_name, task_name)

\* lines 184-191: the dependencies of one task
RECURSIVE ResolveIds(_, _, _, _)
ResolveIds(ids, i, id_to_name, task_name) ==
    IF i > Len(ids) THEN <<>>
    ELSE LET pred_name == DictGet(id_to_name, Int_(ids[i]), Null)
         IN (IF Truthy(pred_name) THEN << <<pred_name, task_name>> >> ELSE <<>>)
            \o ResolveIds(ids, i + 1, id_to_name, task_name)

\* Mutant of SecondPass: a field that does not parse ends the pass
RECURSIVE SecondPassStopsOnError(_, _, _)
SecondPassStopsOnError(tsk, i, id_to_name) ==
    IF i > Len(tsk) THEN [exc |-> "", dependencies |-> <<>>]
    ELSE LET pred_str == tsk[i].val.predecessors_str
             rest == SecondPassStopsOnError(tsk, i + 1, id_to_name)
             parsed == PredIds(pred_str)
         IN IF Truthy(pred_str) /\ pred_str.k # "str"
            THEN [exc |-> "AttributeError", dependencies |-> <<>>]
            ELSE IF Truthy(pred_str) /\ parsed.exc # ""
            THEN [exc |-> "", dependencies |-> <<>>]
            ELSE IF rest.exc # "" THEN rest
            ELSE [exc |-> "",
                  dependencies |->
                    (IF ~Truthy(pred_str) THEN <<>>
                     ELSE ResolveIds(parsed.ids, 1, id_to_name, tsk[i].key))
                    \o rest.dependencies]

\* Mutant of SecondPass: the dependencies of a task are put before those
\* collected so far
RECURSIVE SecondPassPrepending(_, _, _)
SecondPassPrepending(tsk, i, id_to_name) ==
    IF i > Len(tsk) THEN [exc |-> "", dependencies |-> <<>>]
    ELSE LET pred_str == tsk[i].val.predecessors_str
             rest == SecondPassPrepending(tsk, i + 1, id_to_name)
             parsed == PredIds(pred_str)
             mine == IF ~Truthy(pred_str) \/ parsed.exc # "" THEN <<>>
                     ELSE ResolveIds(parsed.ids, 1, id_to_name, tsk[i].key)
         IN IF Truthy(pred_str) /\ pred_str.k # "str"
            THEN [exc |-> "AttributeError", dependencies |-> <<>>]
            ELSE IF rest.exc # "" THEN rest
            ELSE [exc |-> "", dependencies |-> rest.dependencies \o mine]

\* lines 176-195: the second pass; [exc, dependencies]
RECURSIVE SecondPass(_, _, _)
SecondPass(tsk, i, id_to_name) ==
    IF i > Len(tsk) THEN [exc |-> "", dependencies |-> <<>>]
    ELSE LET pred_str == tsk[i].val.predecessors_str
             rest == SecondPass(tsk, i + 1, id_to_name)
             parsed == PredIds(pred_str)
             mine == IF ~Truthy(pred_str) \/ parsed.exc # "" THEN <<>>
                     ELSE ResolveIds(parsed.ids, 1, id_to_name, tsk[i].key)
         IN IF Truthy(pred_str) /\ pred_str.k # "str"
            THEN [exc |-> "AttributeError", dependencies |-> <<>>]
            ELSE IF rest.exc # "" THEN rest
            ELSE [exc |-> "", dependencies |-> mine \o rest.dependencies]

\* lines 13-207
ProcessProjectData(info, tl, now) ==
    LET calendar == CalendarType(info)
        parsed == ParsedStartDate(info)
        project_start_date == IF parsed.valid THEN parsed.t ELSE SyntheticStartDate(tl, now)
        calendar_type == IF parsed.valid THEN calendar.s ELSE "continuous"
        first == FirstPass(tl, 1, project_start_date,
                           [tasks |-> <<>>, stream_map |-> <<>>, id_to_name |-> <<>>,
                            exc |-> ""])
        second == SecondPass(first.tasks, 1, first.id_to_name)
    IN IF calendar.exc # "" THEN Raised(calendar.exc)
       ELSE IF first.exc # "" THEN Raised(first.exc)
       ELSE IF second.exc # "" THEN Raised(second.exc)
       ELSE Returned(Tuple8(Dt(project_start_date), Some(first.tasks),
                            Some(second.dependencies), Some(first.stream_map),
                            Str(calendar_type), Get(info.name, Str("Project")),
                            PublishDate(info), Bool(~parsed.valid)))

\* lines 211-228: load_process_project_data on a file [status, has_info, has_tasks]
\* whose document holds info and tl under the keys it has
EmptyInfo == [name |-> Absent, calendar |-> Absent, start_date |-> Absent,
              publish_date |-> Absent]

\* Mutant of LoadProcessProjectData: a file that is no JSON is processed as an
\* empty document
LoadEmptyOnBadJson(f, info, tl, now) ==
    CASE f.status = "missing" -> Returned(AllNone)
      [] f.status = "invalid_json" -> ProcessProjectData(EmptyInfo, <<>>, now)
      [] f.status = "not_object" -> Raised("AttributeError")
      [] OTHER -> ProcessProjectData(IF f.has_info THEN info ELSE EmptyInfo,
                                     IF f.has_tasks THEN tl ELSE <<>>, now)

LoadProcessProjectData(f, info, tl, now) ==
    CASE f.status \in {"missing", "invalid_json"} -> Returned(AllNone)
      [] f.status = "not_object" -> Raised("AttributeError")
      [] OTHER -> ProcessProjectData(IF f.has_info THEN info ELSE EmptyInfo,
                                     IF f.has_tasks THEN tl ELSE <<>>, now)

----------------------------------------------------------------------------
(* plotter.plot_project_gantt, lines 62-85: the copies and the graph *)

Endpoints(deps) == {deps[i][1] : i \in 1..Len(deps)} \cup {deps[i][2] : i \in 1..Len(deps)}

BuildGraph(tsk, deps) ==
    [nodes |-> Keys(tsk) \cup Endpoints(deps),
     edges |-> {deps[i] : i \in 1..Len(deps)}]

----------------------------------------------------------------------------
(* graph_utils.add_global_start_end *)

InDegree(g, node) == Cardinality({e \in g.edges : e[2] = node})
OutDegree(g, node) == Cardinality({e \in g.edges : e[1] = node})

\* Mutant of RootNodes: the degree is taken on the wrong side
RootNodesByOutDegree(g) ==
    {node \in g.nodes : OutDegree(g, node) = 0 /\ node \notin {START_NODE, END_NODE}}

\* lines 29-38
RootNodes(g) == {node \in g.nodes : InDegree(g, node) = 0 /\ node \notin {START_NODE, END_NODE}}
LeafNodes(g) == {node \in g.nodes : OutDegree(g, node) = 0 /\ node \notin {START_NODE, END_NODE}}

\* lines 40-51
AllStarts(tsk) ==
    {tsk[i].val.start.n : i \in {j \in 1..Len(tsk) :
        tsk[j].val.start.k = "dt" /\ tsk[j].key \notin {START_NODE, END_NODE}}}
AllEnds(tsk) ==
    {tsk[i].val.end.n : i \in {j \in 1..Len(tsk) :
        tsk[j].val.end.k = "dt" /\ tsk[j].key \notin {START_NODE, END_NODE}}}

Min(S) == CHOOSE x \in S : \A y \in S : x <= y
Max(S) == CHOOSE x \in S : \A y \in S : x >= y

\* lines 53-66: [exc, min_start_date, max_end_date]; now is datetime.now()
DateRange(tsk, now) ==
    LET base_date == IF tsk # <<>> THEN Get(tsk[1].val.start, Dt(now)) ELSE Dt(now)
    IN IF AllStarts(tsk) = {} \/ AllEnds(tsk) = {}
       THEN IF base_date.k = "dt"
            THEN [exc |-> "", min_start_date |-> base_date.n,
                  max_end_date |-> base_date.n + Day]
            ELSE [exc |-> "TypeError", min_start_date |-> 0, max_end_date |-> 0]
       ELSE [exc |-> "", min_start_date |-> Min(AllStarts(tsk)),
             max_end_date |-> Max(AllEnds(tsk))]

\* lines 68-88
BoundaryTaskData(id, date) ==
    TaskData(Str(id), Dt(date), Dt(date), Absent, Absent, Absent, Absent,
             Type("SYSTEM"), Str("System"), Str(""), Absent, Absent, Absent, Td(0))

\* Mutant of StartNodeDate: START is dated on the earliest start itself
StartNodeDateSameDay(range) == range.min_start_date

StartNodeDate(range) == range.min_start_date - Day
EndNodeDate(range) == range.max_end_date + 2 * Day

\* lines 90-104
Augmented(g, tsk, sm, range) ==
    [G |-> [nodes |-> g.nodes \cup {START_NODE, END_NODE},
            edges |-> g.edges \cup {<<START_NODE, root>> : root \in RootNodes(g)}
                              \cup {<<leaf, END_NODE>> : leaf \in LeafNodes(g)}],
     tasks |-> DictSet(DictSet(tsk, START_NODE, BoundaryTaskData("START", StartNodeDate(range))),
                       END_NODE, BoundaryTaskData("END", EndNodeDate(range))),
     stream_map |-> DictSet(DictSet(sm, START_NODE, Str("System")), END_NODE, Str("System"))]

\* Mutant of AddGlobalStartEndOf: an empty graph gets START and END as well
AddGlobalStartEndOnEmpty(g, tsk, sm, now) ==
    LET same == [G |-> g, tasks |-> tsk, stream_map |-> sm]
        range == DateRange(tsk, now)
    IN IF START_NODE \in g.nodes \/ END_NODE \in g.nodes
       THEN [exc |-> "", value |-> "None", args |-> same]
       ELSE IF range.exc # ""
       THEN [exc |-> range.exc, value |-> "", args |-> same]
       ELSE [exc |-> "", value |-> "tuple", args |-> Augmented(g, tsk, sm, range)]

\* Mutant of AddGlobalStartEndOf: the call is a no-op only when both START and
\* END are present
AddGlobalStartEndUnlessBoth(g, tsk, sm, now) ==
    LET same == [G |-> g, tasks |-> tsk, stream_map |-> sm]
        range == DateRange(tsk, now)
    IN IF (START_NODE \in g.nodes /\ END_NODE \in g.nodes) \/ g.nodes = {}
       THEN [exc |-> "", value |-> "None", args |-> same]
       ELSE IF range.exc # ""
       THEN [exc |-> range.exc, value |-> "", args |-> same]
       ELSE [exc |-> "", value |-> "tuple", args |-> Augmented(g, tsk, sm, range)]

\* lines 11-106: [exc, value, args]; value tells what the call returns, None or
\* the tuple (G, tasks, stream_map), and args is what its arguments have become
AddGlobalStartEndOf(g, tsk, sm, now) ==
    LET same == [G |-> g, tasks |-> tsk, stream_map |-> sm]
        range == DateRange(tsk, now)
    IN IF START_NODE \in g.nodes \/ END_NODE \in g.nodes
       THEN [exc |-> "", value |-> "None", args |-> same]
       ELSE IF g.nodes = {}
       THEN [exc |-> "", value |-> "None", args |-> same]
       ELSE IF range.exc # ""
       THEN [exc |-> range.exc, value |-> "", args |-> same]
       ELSE [exc |-> "", value |-> "tuple", args |-> Augmented(g, tsk, sm, range)]

----------------------------------------------------------------------------
(* plotter.plot_project_gantt, lines 87-179 and 536-539 *)

\* a < b as sorted() compares two stream-map values: texts by code points,
\* numbers by value
ValueLess(a, b) ==
    IF a.k = "str" THEN TextLess(Chars(a.s), Chars(b.s))
    ELSE (IF a.k = "int" THEN a.n * Day ELSE a.n) < (IF b.k = "int" THEN b.n * Day ELSE b.n)

\* Two values that sorted() can compare
Comparable(a, b) ==
    \/ a.k = "str" /\ b.k = "str"
    \/ a.k \in {"int", "num", "bool"} /\ b.k \in {"int", "num", "bool"}

RECURSIVE Insert(_, _)
Insert(x, seq) ==
    IF seq = <<>> THEN <<x>>
    ELSE IF ValueLess(x, seq[1]) THEN <<x>> \o seq
    ELSE <<seq[1]>> \o Insert(x, Tail(seq))

\* sorted(seq)
RECURSIVE Sorted(_)
Sorted(seq) == IF seq = <<>> THEN <<>> ELSE Insert(seq[1], Sorted(Tail(seq)))

\* list(set(stream_map.values())), in one of the orders a set can have
RECURSIVE Distinct(_, _)
Distinct(sm, i) ==
    IF i > Len(sm) THEN <<>>
    ELSE (IF \E j \in 1..(i - 1) : sm[j].val = sm[i].val THEN <<>> ELSE <<sm[i].val>>)
         \o Distinct(sm, i + 1)

\* Mutant of UniqueChains: the labels are ranked in insertion order
UniqueChainsUnsorted(sm) ==
    LET chains == Distinct(sm, 1)
    IN IF \E i \in 1..Len(sm) : sm[i].val.k = "list"
       THEN [exc |-> "TypeError", list |-> <<>>]
       ELSE IF \E i, j \in 1..Len(chains) : i # j /\ ~Comparable(chains[i], chains[j])
       THEN [exc |-> "TypeError", list |-> <<>>]
       ELSE [exc |-> "", list |-> chains]

\* line 125: sorted(list(set(stream_map_copy.values()))); [exc, list].  A list
\* is unhashable, and values of two kinds cannot be ordered
UniqueChains(sm) ==
    LET chains == Distinct(sm, 1)
    IN IF \E i \in 1..Len(sm) : sm[i].val.k = "list"
       THEN [exc |-> "TypeError", list |-> <<>>]
       ELSE IF \E i, j \in 1..Len(chains) : i # j /\ ~Comparable(chains[i], chains[j])
       THEN [exc |-> "TypeError", list |-> <<>>]
       ELSE [exc |-> "", list |-> Sorted(chains)]

\* line 126: the rank of a label of unique_chains
StreamLevel(unique_chains, chain) ==
    (CHOOSE i \in 1..Len(unique_chains) : unique_chains[i] = chain) - 1

\* lines 127-140
YLevels(g, sm, unique_chains) ==
    [task_name \in g.nodes |->
        LET chain == DictGet(sm, task_name, Null)
        IN IF chain.k # "null" /\ (\E i \in 1..Len(unique_chains) : unique_chains[i] = chain)
           THEN 0 - StreamLevel(unique_chains, chain)
           ELSE 0]

\* lines 144-153: the instants of all tasks of the task map, START and END too
PlotStarts(tsk) == {tsk[i].val.start.n : i \in {j \in 1..Len(tsk) : tsk[j].val.start.k = "dt"}}
PlotEnds(tsk) == {tsk[i].val.end.n : i \in {j \in 1..Len(tsk) : tsk[j].val.end.k = "dt"}}

\* The default range at line 158, in ticks
DefaultRange == 7 * Day

\* Mutant of TimelineRange: without dates the range is the day of the project
\* start
TimelineRangeShortDefault(project_start_date, tsk) ==
    LET all_starts == PlotStarts(tsk)
        all_ends == PlotEnds(tsk)
    IN IF all_starts = {} /\ all_ends = {}
       THEN [min_date |-> project_start_date, max_date |-> project_start_date + Day]
       ELSE IF all_starts = {}
       THEN [min_date |-> Min(all_ends) - Day, max_date |-> Max(all_ends)]
       ELSE IF all_ends = {}
       THEN [min_date |-> Min(all_starts), max_date |-> Max(all_starts) + Day]
       ELSE [min_date |-> Min(all_starts), max_date |-> Max(all_ends)]

\* lines 155-173: [min_date, max_date]
TimelineRange(project_start_date, tsk) ==
    LET all_starts == PlotStarts(tsk)
        all_ends == PlotEnds(tsk)
    IN IF all_starts = {} /\ all_ends = {}
       THEN [min_date |-> project_start_date, max_date |-> project_start_date + DefaultRange]
       ELSE IF all_starts = {}
       THEN [min_date |-> Min(all_ends) - Day, max_date |-> Max(all_ends)]
       ELSE IF all_ends = {}
       THEN [min_date |-> Min(all_starts), max_date |-> Max(all_starts) + Day]
       ELSE [min_date |-> Min(all_starts), max_date |-> Max(all_ends)]

\* Mutant of PlotLimits: the limits are the range itself
PlotLimitsUnbuffered(range) == <<range.min_date, range.max_date>>

\* lines 176-177 and 447: (plot_start_date, plot_limit_end_date), the range
\* widened by one day and by one day and a half
PlotLimits(range) == <<range.min_date - Day, range.max_date + Day + (Day \div 2)>>

\* round(x) of a number of days given in ticks: to the nearest integer, a half
\* to the even one
Round(ticks) ==
    LET q == ticks \div Day
        r == ticks % Day
    IN IF 2 * r < Day THEN q
       ELSE IF 2 * r > Day THEN q + 1
       ELSE IF q % 2 = 0 THEN q ELSE q + 1

\* Mutant of DayIndexFormatter: the origin is the project start itself
DayIndexFromStart(project_start_date, tick_val) == Round(tick_val - project_start_date)

\* lines 111-121 and 536-539: day_index_formatter(tick_val, pos) of the figure
\* plotted for project_start_date
DayIndexFormatter(project_start_date, tick_val) ==
    LET project_start_num_base == Midnight(project_start_date)
    IN Round(tick_val - project_start_num_base)

\* "tasks_copy = tasks", without a copy: what the call does to its object is
\* done to the object of the caller
OriginalShared(passed, copy) == copy

\* tasks.copy(), list(dependencies), stream_map.copy(): the call works on a new
\* object, so the object passed in keeps its contents whatever becomes of the
\* copy
Original(passed, copy) == passed

\* The outcome of a call: the exception raised, or the figure with the graph,
\* the task map and the stream map it was drawn from; beside it the task map,
\* the dependency list and the stream map of the caller, as passed in and as
\* they are after the call
Plotted(fig, add_start_end_nodes, g, tsk, sm, y_levels, xlim, passed, caller) ==
    [exc |-> "", fig |-> fig, add_start_end_nodes |-> add_start_end_nodes, G |-> g,
     tasks_copy |-> tsk, stream_map_copy |-> sm, y_levels |-> y_levels, xlim |-> xlim,
     passed |-> passed, caller |-> caller]

PlotRaised(exc, add_start_end_nodes, passed, caller) ==
    [exc |-> exc, fig |-> "", add_start_end_nodes |-> add_start_end_nodes,
     G |-> [nodes |-> {}, edges |-> {}], tasks_copy |-> <<>>, stream_map_copy |-> <<>>,
     y_levels |-> <<>>, xlim |-> <<>>, passed |-> passed, caller |-> caller]

\* lines 57-179 and 447; the figure is "empty" (No Tasks) or a "chart" with its
\* vertical levels and the limits of its time axis
PlotProjectGantt(project_start_date, tsk, dependencies, sm, add_start_end_nodes, now) ==
    LET built == BuildGraph(tsk, dependencies)
        out == AddGlobalStartEndOf(built, tsk, sm, now)
        g == IF add_start_end_nodes THEN out.args.G ELSE built
        tasks_copy == IF add_start_end_nodes THEN out.args.tasks ELSE tsk
        stream_map_copy == IF add_start_end_nodes THEN out.args.stream_map ELSE sm
        unique_chains == UniqueChains(stream_map_copy)
        passed == [tasks |-> tsk, dependencies |-> dependencies, stream_map |-> sm]
        caller == [tasks |-> Original(tsk, tasks_copy),
                   dependencies |-> Original(dependencies, dependencies),
                   stream_map |-> Original(sm, stream_map_copy)]
    IN IF add_start_end_nodes /\ out.exc # ""
       THEN PlotRaised(out.exc, add_start_end_nodes, passed, caller)
       ELSE IF add_start_end_nodes /\ out.value = "None"
       THEN PlotRaised("TypeError", add_start_end_nodes, passed, caller)
       ELSE IF g.nodes = {}
       THEN Plotted("empty", add_start_end_nodes, g, tasks_copy, stream_map_copy, <<>>, <<>>,
                    passed, caller)
       ELSE IF project_start_date.k # "dt"
       THEN PlotRaised("AttributeError", add_start_end_nodes, passed, caller)
       ELSE IF unique_chains.exc # ""
       THEN PlotRaised(unique_chains.exc, add_start_end_nodes, passed, caller)
       ELSE Plotted("chart", add_start_end_nodes, g, tasks_copy, stream_map_copy,
                    YLevels(g, stream_map_copy, unique_chains.list),
                    PlotLimits(TimelineRange(project_start_date.n, tasks_copy)),
                    passed, caller)

----------------------------------------------------------------------------
(* Inputs *)

Info(name, calendar, start_date, publish_date) ==
    [name |-> name, calendar |-> calendar, start_date |-> start_date,
     publish_date |-> publish_date]

Item(id, name, start, finish, remaining, type, chain, predecessors) ==
    [id |-> id, name |-> name, start |-> start, finish |-> finish,
     remaining |-> remaining, type |-> type, chain |-> chain, resources |-> Absent,
     predecessors |-> predecessors, url |-> Absent, tags |-> Absent]

PlainItem(id, name) == Item(id, name, Absent, Absent, Absent, Absent, Absent, Absent)

StandardInfo == Info(Str("Test Project"), Str("standard"), Str("2025-01-01T12:00:00"),
                     Str("2025-01-10"))
NoStartDateInfo == Info(Str("No Start Date"), Absent, Absent, Absent)

GoodFile == [status |-> "ok", has_info |-> TRUE, has_tasks |-> TRUE]

Todays == {20 * Day, 21 * Day}
SomeDay == 20 * Day

\* All sequences over S of length at most n
SeqsUpTo(S, n) == UNION {[1..m -> S] : m \in 0..n}

\* Durations: one record, every start, finish and remaining value
DurationStarts == {Absent, Null, Str("abc"), Num(-2), Num(1), Int_(2), Str("1.5")}
DurationFinishes == {Absent, Str("abc"), Num(0), Num(4), Int_(3)}
DurationRemainings == {Absent, Null, Str("abc"), List(1), Num(-1), Num(1), Int_(1), Num(9)}

DurationInputs ==
    {[info |-> i, tl |-> <<Item(Int_(1), Str("A"), s, f, r, Absent, Absent, Absent)>>,
      now |-> SomeDay, file |-> GoodFile] :
        i \in {StandardInfo, NoStartDateInfo}, s \in DurationStarts,
        f \in DurationFinishes, r \in DurationRemainings}

\* Dependencies: up to MaxTasks records; ids and names unique, shared or
\* missing, records skipped for an invalid start offset, predecessor fields
DependencyRecord(id, name, start, predecessors) ==
    Item(id, name, start, Absent, Absent, Absent, Absent, predecessors)

DependencyRecords ==
    {DependencyRecord(Int_(1), Str("A"), Absent, p) : p \in {Absent, Str("2"), Str(" 2 , 1")}}
    \cup {DependencyRecord(Int_(1), Str("A"), Str("abc"), p) : p \in {Absent, Str("2")}}
    \cup {DependencyRecord(Int_(2), Str("B"), Absent, p) :
            p \in {Absent, Str("1"), Str("2,x"), Str("1,,9"), Str(" 2 , 1")}}
    \cup {DependencyRecord(Int_(2), Str("B"), Str("abc"), Absent),
          DependencyRecord(Int_(1), Str("B"), Absent, Absent),
          DependencyRecord(Int_(2), Str("A"), Absent, Str("1")),
          DependencyRecord(Absent, Str("A"), Absent, Str("1")),
          DependencyRecord(Int_(1), Null, Absent, Absent)}

DependencyInputs ==
    {[info |-> StandardInfo, tl |-> tl, now |-> SomeDay, file |-> GoodFile] :
        tl \in SeqsUpTo(DependencyRecords, MaxTasks)}

\* Predecessor fields: two records, the second one with every kind of field
PredecessorFields ==
    {Absent, Null, Str(""), Str(" "), Str("1"), Str("2"), Str("9"), Str("1,2"),
     Str(" 2 , 1"), Str("1,1"), Str("2,x"), Str("1,,9"), Str("12"), Str("1 2"),
     Int_(1), Int_(0), List(1), List(0)}

PredecessorInputs ==
    {[info |-> StandardInfo,
      tl |-> <<PlainItem(id, name),
               Item(Int_(2), Str("B"), Absent, Absent, Absent, Absent, Absent, p)>>,
      now |-> SomeDay, file |-> GoodFile] :
        id \in {Int_(1), Str("1"), Int_(12)}, name \in {Str("A"), Str("")},
        p \in PredecessorFields}

\* Project info: every start date and calendar, with tasks of several start offsets
StartDates == {Absent, Null, Str(""), Str("not a date"), Int_(20250101),
               Str("2025-01-01"), Str("2025-01-03T12:00:00")}
Calendars == {Absent, Str("standard"), Str("Continuous"), Str("bogus")}

ProjectInfos ==
    {Info(Str("P"), Str("standard"), d, Absent) : d \in StartDates}
    \cup {Info(Absent, c, d, Str("2025-01-10")) :
            c \in Calendars, d \in {Absent, Str("2025-01-03T12:00:00")}}

OffsetRecord(id, name, start) ==
    Item(id, name, start, Absent, Absent, Absent, Absent, Absent)

OffsetRecords ==
    {OffsetRecord(Int_(1), Str("A"), s) : s \in {Absent, Str("abc"), Num(-3), Int_(2)}}
    \cup {OffsetRecord(Absent, Str("A"), Num(-3)), OffsetRecord(Int_(2), Str("B"), Int_(2))}

ProjectInfoInputs ==
    {[info |-> i, tl |-> tl, now |-> now, file |-> GoodFile] :
        i \in ProjectInfos, tl \in SeqsUpTo(OffsetRecords, MaxTasks), now \in Todays}

\* Malformed fields: one field of the project info or of one record is missing,
\* null or of an unexpected type
Malformed == {Absent, Null, Int_(7), Int_(0), List(1), Str(""), Str("bogus")}

SampleItem == Item(Int_(1), Str("A"), Int_(0), Int_(5), Int_(2), Str("critical"),
                   Str("C1"), Absent)

MalformedInfos ==
    {[StandardInfo EXCEPT ![f] = m] :
        f \in {"name", "calendar", "start_date", "publish_date"}, m \in Malformed}

MalformedItems ==
    {[SampleItem EXCEPT ![f] = m] :
        f \in {"start", "finish", "remaining", "type", "chain", "resources",
               "predecessors", "url", "tags"},
        m \in Malformed}
    \cup {[SampleItem EXCEPT !.type = ty] : ty \in {Str("Feeding"), Str("system")}}

MalformedInputs ==
    {[info |-> i, tl |-> <<SampleItem>>, now |-> SomeDay, file |-> GoodFile] :
        i \in MalformedInfos}
    \cup {[info |-> i, tl |-> <<PlainItem(Int_(2), Str("B")), it>>, now |-> SomeDay,
           file |-> GoodFile] :
            i \in {StandardInfo, NoStartDateInfo}, it \in MalformedItems}

\* Files: missing, not JSON, JSON that is no object, documents lacking a key
Files ==
    {[status |-> st, has_info |-> TRUE, has_tasks |-> TRUE] :
        st \in {"missing", "invalid_json", "not_object"}}
    \cup {[status |-> "ok", has_info |-> hi, has_tasks |-> ht] :
            hi \in BOOLEAN, ht \in BOOLEAN}

FileInputs ==
    {[info |-> i, tl |-> tl, now |-> SomeDay, file |-> f] :
        i \in {StandardInfo, NoStartDateInfo, EmptyInfo,
               [StandardInfo EXCEPT !.calendar = Null]},
        tl \in {<<>>, <<SampleItem>>}, f \in Files}

\* Day indexes: two records, the first with a fractional or a whole start
\* offset, the second with every whole one
DayIndexInputs ==
    {[info |-> i,
      tl |-> <<OffsetRecord(Int_(1), Str("A"), a), OffsetRecord(Int_(2), Str("B"), b)>>,
      now |-> SomeDay, file |-> GoodFile] :
        i \in {StandardInfo, NoStartDateInfo},
        a \in {Absent, Num(-3), Num(1), Int_(-2)},
        b \in {Int_(-3), Int_(-1), Int_(0), Int_(1), Int_(2)}}

LoaderInputs ==
    DurationInputs \cup DependencyInputs \cup PredecessorInputs \cup ProjectInfoInputs
    \cup MalformedInputs \cup FileInputs \cup DayIndexInputs

\* Graphs handed to add_global_start_end directly: every graph over the task
\* names, and the graphs that hold a boundary node already
TaskNames == {Str("A"), Str("B"), Str("C")}

GraphsOver(names) ==
    {[nodes |-> ns, edges |-> es] : ns \in {names}, es \in SUBSET (names \X names)}

Graphs ==
    UNION {GraphsOver(ns) : ns \in SUBSET TaskNames}
    \cup UNION {GraphsOver(ns \cup bs) :
                 ns \in SUBSET {Str("A")},
                 bs \in {{START_NODE}, {END_NODE}, {START_NODE, END_NODE}}}

\* The task data of a hand-built task map: start, end, type and chain only
HandBuilt(start, end, chain) ==
    TaskData(Absent, start, end, Absent, Absent, Absent, Absent, Type("CRITICAL"),
             chain, Absent, Absent, Absent, Absent, Absent)

NameOrder == <<Str("A"), Str("B"), Str("C"), START_NODE, END_NODE>>

\* The names of S in the order of NameOrder
RECURSIVE Ordered(_, _)
Ordered(S, i) ==
    IF i > Len(NameOrder) THEN <<>>
    ELSE (IF NameOrder[i] \in S THEN <<NameOrder[i]>> ELSE <<>>) \o Ordered(S, i + 1)

\* A task map gives each node its dates by one of these schedules
Schedules ==
    {"dated", "same day", "no start", "null start", "no end", "no dates", "streams", "empty"}

ScheduledTask(schedule, i) ==
    CASE schedule = "dated" -> HandBuilt(Dt(i * Day), Dt(i * Day + 3), Str("C1"))
      [] schedule = "same day" -> HandBuilt(Dt(Day), Dt(Day), Str("C2"))
      [] schedule = "no start" ->
            HandBuilt(IF i = 1 THEN Absent ELSE Dt(i * Day), Dt(i * Day + 1), Str("C1"))
      [] schedule = "null start" ->
            HandBuilt(Null, IF i = 1 THEN Dt(Day) ELSE Absent, Str("C1"))
      [] schedule = "no end" -> HandBuilt(Dt((4 - i) * Day), Absent, Str("C1"))
      [] schedule = "streams" ->
            HandBuilt(Dt(i * Day), Dt(i * Day + 1),
                      Str(CASE i = 1 -> "beta" [] i = 2 -> "C2" [] OTHER -> "C1"))
      [] OTHER -> HandBuilt(Absent, Absent, Str("C1"))

TaskMap(nodes, schedule) ==
    IF schedule = "empty" THEN <<>>
    ELSE LET names == Ordered(nodes, 1)
         IN [i \in 1..Len(names) |->
                [key |-> names[i], val |-> ScheduledTask(schedule, i)]]

StreamMapOf(tsk) == [i \in 1..Len(tsk) |-> [key |-> tsk[i].key, val |-> tsk[i].val.chain]]

\* The graphs with their task maps, and an empty graph beside a task map of
\* two tasks
GraphInputs ==
    {[G |-> g, tasks |-> TaskMap(g.nodes, schedule)] : g \in Graphs, schedule \in Schedules}
    \cup {[G |-> [nodes |-> {}, edges |-> {}],
           tasks |-> TaskMap({Str("A"), Str("B")}, "dated")]}

NotAdded == [exc |-> "", value |-> "not called"]
NotPlotted == [exc |-> "", fig |-> "not called", add_start_end_nodes |-> FALSE]

\* list(G.edges())
RECURSIVE EdgeList(_)
EdgeList(edges) ==
    IF edges = {} THEN <<>>
    ELSE LET e == CHOOSE x \in edges : TRUE IN <<e>> \o EdgeList(edges \ {e})

----------------------------------------------------------------------------
(* The pipeline *)

InitLoader ==
    /\ pc = "input"
    /\ \E in \in LoaderInputs :
        /\ project_info_dict = in.info
        /\ tasks_list = in.tl
        /\ today = in.now
        /\ file = in.file
    /\ G = [nodes |-> {}, edges |-> {}]
    /\ tasks = <<>>
    /\ stream_map = <<>>

InitGraph ==
    /\ pc = "graph"
    /\ project_info_dict = EmptyInfo
    /\ tasks_list = <<>>
    /\ today = SomeDay
    /\ file = GoodFile
    /\ \E in \in GraphInputs :
        /\ G = in.G
        /\ tasks = in.tasks
        /\ stream_map = StreamMapOf(in.tasks)

Init ==
    /\ InitLoader \/ InitGraph
    /\ ret = NotCalled
    /\ loaded = NotCalled
    /\ entry = [G |-> G, tasks |-> tasks, stream_map |-> stream_map]
    /\ added = NotAdded
    /\ calls = 0
    /\ plot = NotPlotted

\* process_project_data(project_info_dict, tasks_list)
CallProcessProjectData ==
    /\ pc = "input"
    /\ ret' = ProcessProjectData(project_info_dict, tasks_list, today)
    /\ pc' = "processed"
    /\ UNCHANGED <<project_info_dict, tasks_list, file, today, loaded, G, tasks,
                   stream_map, entry, added, calls, plot>>

\* load_process_project_data(file)
CallLoadProcessProjectData ==
    /\ pc = "processed"
    /\ loaded' = LoadProcessProjectData(file, project_info_dict, tasks_list, today)
    /\ pc' = "loaded"
    /\ UNCHANGED <<project_info_dict, tasks_list, file, today, ret, G, tasks,
                   stream_map, entry, added, calls, plot>>

\* plot_project_gantt, lines 62-85, on the tuple process_project_data returned
CallBuildGraph ==
    /\ pc = "processed"
    /\ ret.st = "returned"
    /\ tasks' = ret.val.tasks.v
    /\ stream_map' = ret.val.stream_map.v
    /\ G' = BuildGraph(ret.val.tasks.v, ret.val.dependencies.v)
    /\ entry' = [G |-> G', tasks |-> tasks', stream_map |-> stream_map']
    /\ pc' = "graph"
    /\ UNCHANGED <<project_info_dict, tasks_list, file, today, ret, loaded, added, calls,
                   plot>>

\* add_global_start_end(G, tasks, stream_map), at any time of the day
CallAddGlobalStartEnd ==
    /\ pc = "graph"
    /\ calls < MaxCalls
    /\ \E time_of_day \in 0..(Day - 1) :
        LET out == AddGlobalStartEndOf(G, tasks, stream_map, today + time_of_day)
        IN /\ G' = out.args.G
           /\ tasks' = out.args.tasks
           /\ stream_map' = out.args.stream_map
           /\ added' = [exc |-> out.exc, value |-> out.value]
    /\ entry' = [G |-> G, tasks |-> tasks, stream_map |-> stream_map]
    /\ calls' = calls + 1
    /\ UNCHANGED <<pc, project_info_dict, tasks_list, file, today, ret, loaded, plot>>

\* plot_project_gantt(project_start_date, tasks, dependencies, stream_map, ...,
\* add_start_end_nodes), at any time of the day: on the items of the tuple
\* process_project_data returned, or on a hand-built task map with the day of
\* the run as project start
CallPlotProjectGantt ==
    /\ pc = "graph"
    /\ \E add_start_end_nodes \in BOOLEAN, time_of_day \in 0..(Day - 1) :
        \E out \in {PlotProjectGantt(
                        IF ret.st = "returned" THEN ret.val.project_start_date ELSE Dt(today),
                        tasks, EdgeList(G.edges), stream_map, add_start_end_nodes,
                        today + time_of_day)} :
            /\ plot' = out
            /\ tasks' = out.caller.tasks
            /\ stream_map' = out.caller.stream_map
    /\ pc' = "plotted"
    /\ UNCHANGED <<project_info_dict, tasks_list, file, today, ret, loaded, G, entry, added,
                   calls>>

Next ==
    \/ CallProcessProjectData
    \/ CallLoadProcessProjectData
    \/ CallBuildGraph
    \/ CallAddGlobalStartEnd
    \/ CallPlotProjectGantt

Spec == Init /\ [][Next]_vars

----------------------------------------------------------------------------
(* Vocabulary of the properties *)

Returned_ == ret.st = "returned"
RetTasks == ret.val.tasks.v
RetDeps == ret.val.dependencies.v
RetStreamMap == ret.val.stream_map.v

\* The records that carry an id and a name
HasIdAndName(r) == r.id.k \notin {"absent", "null"} /\ r.name.k \notin {"absent", "null"}

\* The offsets of a record as the numbers they denote, in ticks
StartOffset(r) == Float(IF r.start.k = "absent" THEN Int_(0) ELSE r.start)
FinishOffset(r) == IF r.finish.k = "absent" THEN StartOffset(r) ELSE Float(r.finish)

\* The record a returned task was made from: the last record of that name that
\* carries an id and offsets that are numbers
Sources(name) ==
    {i \in 1..Len(tasks_list) :
        /\ HasIdAndName(tasks_list[i])
        /\ tasks_list[i].name = name
        /\ StartOffset(tasks_list[i]).exc = ""
        /\ FinishOffset(tasks_list[i]).exc = ""}

Source(name) == tasks_list[Max(Sources(name))]

\* C1: for every task process_project_data returns, end >= start and
\* total_duration = end - start >= 0, and a finish offset that is absent or not
\* after the start offset gives end = start (zero duration).
C1_EndNotBeforeStart ==
    Returned_ =>
        \A i \in 1..Len(RetTasks) :
            LET t == RetTasks[i].val
                r == Source(RetTasks[i].key)
            IN /\ t.end.n >= t.start.n
               /\ t.total_duration.n = t.end.n - t.start.n
               /\ t.total_duration.n >= 0
               /\ FinishOffset(r).n <= StartOffset(r).n =>
                    t.end = t.start /\ t.total_duration.n = 0

\* A task whose finish offset lies before its start offset was returned, clamped
C1_Witness ==
    /\ Returned_
    /\ \E i \in 1..Len(RetTasks) :
        /\ FinishOffset(Source(RetTasks[i].key)).n < StartOffset(Source(RetTasks[i].key)).n
        /\ RetTasks[i].val.end = RetTasks[i].val.start

\* C2: for every task returned, 0 <= remaining <= total and completed +
\* remaining = total; has_remaining_data only if a remaining value was supplied
\* and is a number; a negative value gives 0, a value above total gives total;
\* without a usable value remaining is 0, completed is total and the flag is off.
C2_RemainingWithinTotal ==
    Returned_ =>
        \A i \in 1..Len(RetTasks) :
            LET t == RetTasks[i].val
                r == Source(RetTasks[i].key)
                supplied == r.remaining.k \notin {"absent", "null"}
                usable == supplied /\ Float(r.remaining).exc = ""
                days == Float(r.remaining).n
            IN /\ 0 <= t.remaining_duration.n
               /\ t.remaining_duration.n <= t.total_duration.n
               /\ t.completed_duration.n + t.remaining_duration.n = t.total_duration.n
               /\ t.has_remaining_data = Bool(usable)
               /\ usable /\ days < 0 => t.remaining_duration.n = 0
               /\ usable /\ days > t.total_duration.n =>
                    t.remaining_duration = t.total_duration
               /\ usable /\ 0 <= days /\ days <= t.total_duration.n =>
                    t.remaining_duration.n = days
               /\ ~usable =>
                    /\ t.remaining_duration.n = 0
                    /\ t.completed_duration = t.total_duration

\* A remaining value above the total duration was capped at a positive total
C2_Witness ==
    /\ Returned_
    /\ \E i \in 1..Len(RetTasks) :
        /\ RetTasks[i].val.has_remaining_data = Bool(TRUE)
        /\ RetTasks[i].val.total_duration.n > 0
        /\ Float(Source(RetTasks[i].key).remaining).n > RetTasks[i].val.total_duration.n
        /\ RetTasks[i].val.remaining_duration = RetTasks[i].val.total_duration

\* C3: both names of every returned dependency are keys of the returned task
\* map, also when records that carry an id and a name are skipped.
C3_DependencyEndpointsKnown ==
    Returned_ =>
        \A i \in 1..Len(RetDeps) :
            RetDeps[i][1] \in Keys(RetTasks) /\ RetDeps[i][2] \in Keys(RetTasks)

\* The ids of the input tasks are unique
RegisteredRecords == {i \in 1..Len(tasks_list) : HasIdAndName(tasks_list[i])}

UniqueIds ==
    \A i, j \in RegisteredRecords : tasks_list[i].id = tasks_list[j].id => i = j

\* The tokens of a predecessor field: the pieces between commas that are not blank
Tokens(field) ==
    SelectSeq(Split(Chars(field.s), ","), LAMBDA piece : Strip(piece) # <<>>)

IsIdToken(piece) == ParseInt(piece).exc = ""

\* The input tasks a token designates (at most one when ids are unique)
Designated(piece) ==
    {i \in RegisteredRecords : IsIdToken(piece) /\ tasks_list[i].id = Int_(ParseInt(piece).n)}

Count(seq, Test(_)) == Cardinality({i \in 1..Len(seq) : Test(seq[i])})

\* The dependencies of a returned task are those of its id tokens: one for each
\* token that designates an input task, from that task's name
DependenciesMatchTokens(successor, field, usable(_)) ==
    /\ \A j \in RegisteredRecords :
        Count(RetDeps, LAMBDA d : d = <<tasks_list[j].name, successor>>)
          = Count(Tokens(field),
                  LAMBDA piece : \E k \in Designated(piece) :
                      usable(k) /\ tasks_list[k].name = tasks_list[j].name)
    /\ Count(RetDeps, LAMBDA d : d[2] = successor)
          = Count(Tokens(field), LAMBDA piece : \E k \in Designated(piece) : usable(k))

FieldOf(entry_) ==
    IF entry_.val.predecessors_str.k = "str" THEN entry_.val.predecessors_str ELSE Str("")

C5_NeverRaises == ret.st # "raised"

\* The start dates that parse, and the instant each one denotes
DateTexts ==
    {<<"2025-01-01", 0>>, <<"2025-01-01T12:00:00", 1>>, <<"2025-01-03T12:00:00", 5>>,
     <<"2025-01-10", 18>>}

StartDateParses ==
    project_info_dict.start_date.k = "str"
    /\ \E d \in DateTexts : d[1] = project_info_dict.start_date.s

SuppliedStartInstant ==
    (CHOOSE d \in DateTexts : d[1] = project_info_dict.start_date.s)[2]

\* The start offsets of the records whose start is a number (0 when it is absent)
ParsedStartOffsets ==
    {StartOffset(tasks_list[i]).n :
        i \in {j \in 1..Len(tasks_list) : StartOffset(tasks_list[j]).exc = ""}}

MinParsedStartOffset ==
    IF ParsedStartOffsets = {} THEN 0 ELSE Min(ParsedStartOffsets)

\* C6: without a start date that parses, the tuple returned has calendar
\* 'continuous' whatever calendar was supplied, is_synthetic_start_date true and
\* start date = today's midnight - the minimum start offset over the records
\* whose start parses (0 when there are none); for {"name": "No Start Date"}
\* and no tasks it is (today midnight, {}, [], {}, 'continuous',
\* 'No Start Date', None, True).
C6_SyntheticStartDate ==
    Returned_ /\ ~StartDateParses =>
        /\ ret.val.calendar_type = Str("continuous")
        /\ ret.val.is_synthetic_start_date = Bool(TRUE)
        /\ ret.val.project_start_date = Dt(today - MinParsedStartOffset)
        /\ project_info_dict = NoStartDateInfo /\ tasks_list = <<>> =>
            ret.val = Tuple8(Dt(today), Some(<<>>), Some(<<>>), Some(<<>>),
                             Str("continuous"), Str("No Start Date"), Null, Bool(TRUE))

\* A synthetic start date after today: the minimum offset is negative, is the
\* offset of a record without an id, and a calendar 'standard' was supplied
C6_Witness ==
    /\ Returned_ /\ ~StartDateParses
    /\ project_info_dict.calendar = Str("standard")
    /\ ret.val.project_start_date.n > today
    /\ \E i \in 1..Len(tasks_list) :
        /\ ~HasIdAndName(tasks_list[i])
        /\ StartOffset(tasks_list[i]).exc = ""
        /\ StartOffset(tasks_list[i]).n = MinParsedStartOffset
    /\ \E i \in 1..Len(tasks_list) : StartOffset(tasks_list[i]).exc # ""

\* The calendar mode the supplied calendar value stands for
SuppliedCalendarMode ==
    CASE project_info_dict.calendar \in {Str("continuous"), Str("Continuous")} -> "continuous"
      [] OTHER -> "standard"

\* C7: with a start date that parses, the start date returned is that date at
\* midnight, is_synthetic_start_date is false and the calendar is the one the
\* supplied value stands for; is_synthetic_start_date is true exactly when the
\* start date is missing or does not parse.
C7_SuppliedStartDate ==
    Returned_ =>
        /\ StartDateParses =>
            /\ ret.val.project_start_date.n = SuppliedStartInstant - (SuppliedStartInstant % Day)
            /\ ret.val.project_start_date.n % Day = 0
            /\ ret.val.is_synthetic_start_date = Bool(FALSE)
            /\ ret.val.calendar_type = Str(SuppliedCalendarMode)
        /\ ret.val.is_synthetic_start_date = Bool(~StartDateParses)

\* A start date given with a time of day came back at midnight, with the
\* calendar 'continuous' that was supplied
C7_Witness ==
    /\ Returned_ /\ StartDateParses
    /\ SuppliedStartInstant % Day # 0
    /\ ret.val.project_start_date.n < SuppliedStartInstant
    /\ ret.val.calendar_type = Str("continuous")

\* The 8 items of a tuple
Items(tuple) ==
    <<tuple.project_start_date.k = "null", tuple.tasks.none, tuple.dependencies.none,
      tuple.stream_map.none, tuple.calendar_type.k = "null",
      tuple.project_name.k = "null", tuple.project_publish_date.k = "null",
      tuple.is_synthetic_start_date.k = "null">>

\* C8: load_process_project_data returns 8 items that are all None for a file
\* that is missing or no JSON, and otherwise what process_project_data returns
\* for the document's project_info and tasks; no tuple returned puts None in
\* the place of the start date, the containers, the calendar or the flag next
\* to data.
C8_AllNoneOrProcessed ==
    loaded.st = "returned" =>
        /\ file.status \in {"missing", "invalid_json"} =>
            \A i \in 1..8 : Items(loaded.val)[i]
        /\ file.status \notin {"missing", "invalid_json"} =>
            /\ file.status = "ok"
            /\ file.has_info /\ file.has_tasks => loaded = ret
            /\ ~file.has_info /\ file.has_tasks /\ tasks_list = <<>> =>
                loaded.val.project_name = Str("Project")
                /\ loaded.val.is_synthetic_start_date = Bool(TRUE)
            /\ ~file.has_tasks => loaded.val.tasks = Some(<<>>)
            /\ ~file.has_tasks /\ (file.has_info \/ project_info_dict = EmptyInfo)
               /\ tasks_list = <<>> => loaded = ret
        /\ \/ \A i \in 1..8 : Items(loaded.val)[i]
           \/ \A i \in {1, 2, 3, 4, 5, 8} : ~Items(loaded.val)[i]

\* A file that is no JSON gave 8 times None, where process_project_data on the
\* same project gives a tuple with a task
C8_Witness ==
    /\ loaded.st = "returned"
    /\ file.status = "invalid_json"
    /\ loaded.val = AllNone
    /\ ret.st = "returned"
    /\ Len(RetTasks) = 1

\* The call of add_global_start_end that has just returned added the nodes
Augmenting == calls >= 1 /\ added.value = "tuple"

Boundary == {START_NODE, END_NODE}

\* C9: augmenting a non-empty graph without START and END, the edges at START
\* are START->r for exactly the nodes r without an incoming edge before the
\* call, the edges at END are l->END for exactly the nodes l without an outgoing
\* edge before, and every node and edge of before is kept, with no other edge.
C9_BoundaryEdges ==
    Augmenting =>
        LET before == entry.G
            roots == {r \in before.nodes : ~\E e \in before.edges : e[2] = r}
            leaves == {l \in before.nodes : ~\E e \in before.edges : e[1] = l}
        IN /\ before.nodes # {} /\ before.nodes \cap Boundary = {}
           /\ {e \in G.edges : START_NODE \in {e[1], e[2]}} = {<<START_NODE, r>> : r \in roots}
           /\ {e \in G.edges : END_NODE \in {e[1], e[2]}} = {<<l, END_NODE>> : l \in leaves}
           /\ G.nodes = before.nodes \cup Boundary
           /\ {e \in G.edges : e[1] \notin Boundary /\ e[2] \notin Boundary} = before.edges

\* A graph of two roots and two leaves, one node isolated, one with a loop
C9_Witness ==
    /\ Augmenting
    /\ entry.G.nodes = {Str("A"), Str("B"), Str("C")}
    /\ entry.G.edges = {<<Str("A"), Str("B")>>, <<Str("B"), Str("B")>>}
    /\ G.edges = entry.G.edges \cup {<<START_NODE, Str("A")>>, <<START_NODE, Str("C")>>,
                                     <<Str("C"), END_NODE>>}

\* C10: a second call of add_global_start_end on the same graph, task map and
\* stream map, and a call on a graph that holds START or END already, leave the
\* nodes, the edges, the task map and the stream map as they were.
C10_Idempotent ==
    calls >= 1 /\ (calls >= 2 \/ entry.G.nodes \cap Boundary # {}) =>
        /\ G = entry.G
        /\ tasks = entry.tasks
        /\ stream_map = entry.stream_map

\* The second call, after a first one that added START and END to the graph of
\* a project with a dependency
C10_Witness ==
    /\ calls = 2
    /\ added.value = "None"
    /\ Boundary \subseteq G.nodes
    /\ DictHas(tasks, START_NODE) /\ DictHas(stream_map, END_NODE)
    /\ ret.st = "returned"
    /\ Len(RetDeps) > 0
    /\ ~DictHas(RetTasks, START_NODE)

\* The start and end instants of the tasks other than START and END
StartsOf(tsk) ==
    {tsk[i].val.start.n : i \in {j \in 1..Len(tsk) :
        tsk[j].val.start.k = "dt" /\ tsk[j].key \notin Boundary}}
EndsOf(tsk) ==
    {tsk[i].val.end.n : i \in {j \in 1..Len(tsk) :
        tsk[j].val.end.k = "dt" /\ tsk[j].key \notin Boundary}}

\* The entries of START and END carry type SYSTEM, chain 'System', a zero
\* duration and one instant as start and end
BoundaryEntries ==
    \A b \in Boundary :
        /\ DictHas(tasks, b) /\ DictHas(stream_map, b)
        /\ DictGet(tasks, b, Absent).type = Type("SYSTEM")
        /\ DictGet(tasks, b, Absent).chain = Str("System")
        /\ DictGet(stream_map, b, Absent) = Str("System")
        /\ DictGet(tasks, b, Absent).duration = Td(0)
        /\ DictGet(tasks, b, Absent).start.k = "dt"
        /\ DictGet(tasks, b, Absent).start = DictGet(tasks, b, Absent).end

StartDated == DictGet(tasks, START_NODE, Absent).start.n
EndDated == DictGet(tasks, END_NODE, Absent).end.n

\* C11 as stated: the entries of START and END created by add_global_start_end
\* carry type SYSTEM, chain 'System' and a zero duration; START is dated one
\* day before the earliest start of the other tasks and END two days after
\* their latest end, so START is before every task start and END after every
\* task end.
C11_BoundaryDates ==
    Augmenting =>
        LET starts == StartsOf(entry.tasks)
            ends == EndsOf(entry.tasks)
        IN /\ BoundaryEntries
           /\ \A m \in starts : (\A t \in starts : m <= t) => StartDated = m - Day
           /\ \A m \in ends : (\A t \in ends : m >= t) => EndDated = m + 2 * Day
           /\ \A t \in starts : StartDated < t
           /\ \A t \in ends : EndDated > t

\* C11, amended: the entries of START and END carry type SYSTEM, chain 'System'
\* and a zero duration; when some task carries a start instant and some task
\* an end instant, START is dated one day before the earliest start and END two
\* days after the latest end, so START is before every task start and END
\* after every task end; when no task carries a start instant or none an end
\* instant, START is dated one day before and END three days after a base
\* instant, the start of the first task of the task map or else the current
\* time, whatever the dates of the other tasks.
C11_BoundaryDatesOfDatedTasks ==
    Augmenting =>
        LET starts == StartsOf(entry.tasks)
            ends == EndsOf(entry.tasks)
            first == IF entry.tasks = <<>> THEN Absent ELSE entry.tasks[1].val.start
        IN /\ BoundaryEntries
           /\ starts # {} /\ ends # {} =>
                /\ \E m \in starts : (\A t \in starts : m <= t) /\ StartDated = m - Day
                /\ \E m \in ends : (\A t \in ends : m >= t) /\ EndDated = m + 2 * Day
                /\ \A t \in starts : StartDated < t
                /\ \A t \in ends : EndDated > t
           /\ starts = {} \/ ends = {} =>
                \E base \in (IF first.k = "absent" THEN today..(today + Day - 1) ELSE {first.n}) :
                    StartDated = base - Day /\ EndDated = base + 3 * Day

\* Three dated tasks, the earliest starting on day 1, the latest ending on day
\* 4.5: START on day 0 and END on day 6.5
C11_Witness ==
    /\ Augmenting
    /\ StartsOf(entry.tasks) = {Day, 2 * Day, 3 * Day}
    /\ EndsOf(entry.tasks) = {Day + 3, 2 * Day + 3, 3 * Day + 3}
    /\ StartDated = 0
    /\ EndDated = 5 * Day + 3

\* C12: SYSTEM is reserved for the synthetic boundary nodes.  No task parsed
\* from an input record carries type SYSTEM, every parsed task's type is one of
\* the closed set, and after the optional add_global_start_end a task has type
\* SYSTEM exactly when it is the START or END node that the call created.
C12_SystemReserved ==
    Returned_ =>
        /\ \A i \in 1..Len(RetTasks) :
                /\ RetTasks[i].val.type.k = "type"
                /\ RetTasks[i].val.type.s \in TaskTypeNames \ {"SYSTEM"}
        /\ pc = "graph" =>
                \A i \in 1..Len(tasks) :
                    tasks[i].val.type = Type("SYSTEM")
                        <=> tasks[i].key \in Boundary /\ ~DictHas(RetTasks, tasks[i].key)

\* C13: the stream map is in lockstep with the graph.  In the graph built from
\* what process_project_data returned, before and after add_global_start_end,
\* every node has exactly one entry in the stream map and one in the task map,
\* and its stream-map value is the chain of its task.
C13_StreamMapInLockstep ==
    Returned_ /\ pc = "graph" =>
        \A node \in G.nodes :
            /\ Cardinality({i \in 1..Len(stream_map) : stream_map[i].key = node}) = 1
            /\ Cardinality({i \in 1..Len(tasks) : tasks[i].key = node}) = 1
            /\ DictGet(stream_map, node, Absent) = DictGet(tasks, node, Absent).chain

\* The call of plot_project_gantt has returned a chart
Charted == pc = "plotted" /\ plot.fig = "chart"

\* The arguments of the call of plot_project_gantt
ProjectStartDate == IF ret.st = "returned" THEN ret.val.project_start_date ELSE Dt(today)

\* The tasks of a task map or stream map, START and END apart, are its first
\* entries: add_global_start_end inserts START and END after them
TaskCount(d) == Cardinality({i \in 1..Len(d) : d[i].key \notin Boundary})

\* A dict with its tasks inserted in the order p, START and END after them
Permute(d, p) == [i \in 1..Len(d) |-> IF i \in DOMAIN p THEN d[p[i]] ELSE d[i]]

\* The call of plot_project_gantt again, with the task map and the stream map
\* built in the order p, at the time of day time_of_day
Replot(p, time_of_day) ==
    PlotProjectGantt(ProjectStartDate, Permute(tasks, p), EdgeList(G.edges),
                     Permute(stream_map, p), plot.add_start_end_nodes, today + time_of_day)

\* C14: in a chart, the vertical coordinate of every task with a chain label
\* is minus the rank of its label, the rank being the number of distinct labels
\* of the stream map that are lexicographically smaller; and plotting the same
\* tasks inserted in any other order gives every task the same coordinate.
C14_StreamRanks ==
    Charted =>
        LET sm == plot.stream_map_copy
            labels == {sm[i].val : i \in 1..Len(sm)}
            rank(c) == Cardinality({d \in labels : TextLess(Chars(d.s), Chars(c.s))})
        IN /\ \A i \in 1..Len(sm) :
                sm[i].val.k = "str" /\ sm[i].key \in plot.G.nodes =>
                    plot.y_levels[sm[i].key] = 0 - rank(sm[i].val)
           /\ TaskCount(tasks) = TaskCount(stream_map) =>
                \A p \in Permutations(1..TaskCount(tasks)) :
                    \A time_of_day \in (IF plot.add_start_end_nodes THEN 0..(Day - 1) ELSE {0}) :
                        \A again \in {Replot(p, time_of_day)} :
                            again.fig = "chart" /\ again.y_levels = plot.y_levels

\* Three tasks inserted with the labels beta, C2 and C1, and START and END
\* added with the label System: C1 is ranked 0, C2 1, System 2 and beta 3
C14_Witness ==
    /\ Charted
    /\ plot.add_start_end_nodes
    /\ stream_map = <<[key |-> Str("A"), val |-> Str("beta")],
                      [key |-> Str("B"), val |-> Str("C2")],
                      [key |-> Str("C"), val |-> Str("C1")]>>
    /\ plot.y_levels[Str("A")] = -3
    /\ plot.y_levels[Str("B")] = -1
    /\ plot.y_levels[Str("C")] = 0
    /\ plot.y_levels[START_NODE] = -2

\* The instants the date range of the chart was computed from: those of all
\* entries of the task map the chart was drawn from
ScannedStarts ==
    {plot.tasks_copy[i].val.start.n :
        i \in {j \in 1..Len(plot.tasks_copy) : plot.tasks_copy[j].val.start.k = "dt"}}
ScannedEnds ==
    {plot.tasks_copy[i].val.end.n :
        i \in {j \in 1..Len(plot.tasks_copy) : plot.tasks_copy[j].val.end.k = "dt"}}

\* One day and a half, in ticks
DayAndHalf == Day + Day \div 2

\* C15: when some scanned task has a start instant and some scanned task an end
\* instant, the time axis of the chart runs from one day before the earliest
\* start to one day and a half after the latest end.
C15_WindowOfDatedTasks ==
    Charted /\ ScannedStarts # {} /\ ScannedEnds # {} =>
        /\ \E lo \in ScannedStarts :
                (\A t \in ScannedStarts : lo <= t) /\ plot.xlim[1] = lo - Day
        /\ \E hi \in ScannedEnds :
                (\A t \in ScannedEnds : hi >= t) /\ plot.xlim[2] = hi + DayAndHalf

\* Two parsed tasks, one at day -1.5 and one at day 2 of a project starting at
\* instant 0, plotted without START and END: the axis runs from -2.5 to 3.5
C15_Witness ==
    /\ Charted
    /\ ~plot.add_start_end_nodes
    /\ ret.st = "returned"
    /\ ScannedStarts = {-3, 2 * Day}
    /\ ScannedEnds = {-3, 2 * Day}
    /\ plot.xlim = <<-5, 7>>

\* C16 as stated: when no task has a start or an end instant, the time axis of
\* the chart runs from the project start to seven days after it.
C16_DefaultWindow ==
    Charted /\ ScannedStarts = {} /\ ScannedEnds = {} =>
        plot.xlim = <<ProjectStartDate.n, ProjectStartDate.n + 7 * Day>>

\* C16, amended: when no task has a start or an end instant, the date range is
\* the seven days from the project start, and the time axis of the chart is
\* that range widened as every other one: it runs from one day before the
\* project start to eight days and a half after it.
C16_DefaultWindowWidened ==
    Charted /\ ScannedStarts = {} /\ ScannedEnds = {} =>
        plot.xlim = <<ProjectStartDate.n - Day, ProjectStartDate.n + 7 * Day + DayAndHalf>>

\* Three hand-built tasks without dates, plotted without START and END
C16_Witness ==
    /\ Charted
    /\ Len(plot.tasks_copy) = 3
    /\ ScannedStarts = {} /\ ScannedEnds = {}
    /\ plot.xlim = <<today - Day, today + 8 * Day + 1>>

\* C17: for every parsed task whose start offset is a whole number, the day
\* index of its start instant, as the chart's day_index_formatter gives it
\* (the days from the project start at midnight, rounded), is that start
\* offset, with a supplied and with a synthetic project start.
C17_DayIndexRoundTrip ==
    Charted /\ Returned_ =>
        \A i \in 1..Len(RetTasks) :
            LET offset == StartOffset(Source(RetTasks[i].key)).n
            IN offset % Day = 0 =>
                DayIndexFormatter(ret.val.project_start_date.n, RetTasks[i].val.start.n) * Day
                    = offset

\* A token of the field is no integer
HasBadToken(field) == \E n \in 1..Len(Tokens(field)) : ~IsIdToken(Tokens(field)[n])

\* The input with the predecessor field of the record of a returned task removed
WithoutField(name) ==
    [tasks_list EXCEPT ![Max(Sources(name))].predecessors = Absent]

\* C18: when a token of a task's predecessor field is no integer, no returned
\* dependency has that task as successor, whatever the other tokens of the
\* field, and the returned dependencies are those of the same input without
\* that field: the dependencies of the other tasks are as they would be.
C18_BadTokenDropsField ==
    Returned_ =>
        \A i \in 1..Len(RetTasks) :
            HasBadToken(FieldOf(RetTasks[i])) =>
                /\ Count(RetDeps, LAMBDA d : d[2] = RetTasks[i].key) = 0
                /\ \A other \in {ProcessProjectData(project_info_dict,
                                                     WithoutField(RetTasks[i].key), today)} :
                        other.st = "returned" /\ other.val.dependencies.v = RetDeps

\* A field with a token that is the id of an input task and a token that is no
\* integer gave no dependency, while another task got its dependency
C18_Witness ==
    /\ Returned_
    /\ Len(RetDeps) > 0
    /\ \E i \in 1..Len(RetTasks) :
        /\ HasBadToken(FieldOf(RetTasks[i]))
        /\ \E n \in 1..Len(Tokens(FieldOf(RetTasks[i]))) :
                Designated(Tokens(FieldOf(RetTasks[i]))[n]) # {}
        /\ Count(RetDeps, LAMBDA d : d[2] = RetTasks[i].key) = 0

\* C19: the calendar mode process_project_data returns is 'standard' or
\* 'continuous'; it is 'continuous' exactly when the supplied value is
\* 'continuous' in any case of letters or the start date is missing or does not
\* parse, and 'standard' for every other supplied value and for none.
C19_CalendarMode ==
    Returned_ =>
        /\ ret.val.calendar_type \in {Str("standard"), Str("continuous")}
        /\ ret.val.calendar_type = Str("continuous")
            <=> \/ ~StartDateParses
                \/ project_info_dict.calendar \in {Str("continuous"), Str("Continuous")}

\* An unknown calendar value beside a start date that parses came back as
\* 'standard'
C19_Witness ==
    /\ Returned_
    /\ StartDateParses
    /\ project_info_dict.calendar = Str("bogus")
    /\ ret.val.calendar_type = Str("standard")

\* C20: a call of add_global_start_end on a graph without nodes returns None
\* and changes nothing: the graph still has no node, START and END are not in
\* it, and the task map and the stream map are as they were passed in.
C20_EmptyGraphNoOp ==
    calls >= 1 /\ entry.G.nodes = {} =>
        /\ added = [exc |-> "", value |-> "None"]
        /\ G = entry.G
        /\ G.nodes \cap Boundary = {}
        /\ tasks = entry.tasks
        /\ stream_map = entry.stream_map

\* The first call on an empty graph, with a task map and a stream map of two
\* tasks
C20_Witness ==
    /\ calls = 1
    /\ entry.G.nodes = {}
    /\ added.value = "None"
    /\ G.nodes = {}
    /\ Keys(tasks) = {Str("A"), Str("B")}
    /\ Keys(stream_map) = {Str("A"), Str("B")}

\* The graph plot_project_gantt builds from its arguments
Built == BuildGraph(tasks, EdgeList(G.edges))

\* The call of plot_project_gantt has reached the stream layout: the graph it
\* built is not empty, and START and END were added if they were asked for
LayoutReached ==
    /\ pc = "plotted"
    /\ Built.nodes # {}
    /\ plot.add_start_end_nodes =>
            AddGlobalStartEndOf(Built, tasks, stream_map, today).value = "tuple"

\* C21: the stream layout does not fail, whatever the stream map holds: the
\* call returns a chart in which every node of the graph has a vertical
\* coordinate, and the coordinate of a node without a chain in the stream map
\* (no entry, or None) is 0.
C21_LayoutNeverFails ==
    LayoutReached =>
        /\ plot.fig = "chart"
        /\ DOMAIN plot.y_levels = plot.G.nodes
        /\ \A node \in plot.G.nodes :
                DictGet(plot.stream_map_copy, node, Null) = Null => plot.y_levels[node] = 0

\* process_project_data has just been called
Processed == pc = "processed"

\* A list without its i-th record
Remove(seq, i) == SubSeq(seq, 1, i - 1) \o SubSeq(seq, i + 1, Len(seq))

\* A task map without the instants of its tasks
Undated(tsk) ==
    [i \in 1..Len(tsk) |->
        [key |-> tsk[i].key, val |-> [tsk[i].val EXCEPT !.start = Absent, !.end = Absent]]]

\* C22: a record without id or without name is skipped and nothing else: the
\* call returns or raises as it does on the list without that record, and
\* returns the same stream map, the same dependencies and the same tasks (with
\* the same instants when the start date is supplied), so the record is in no
\* map, its id resolves for no other task and every other record is processed.
C22_RecordWithoutIdOrNameSkipped ==
    Processed =>
        \A i \in 1..Len(tasks_list) :
            ~HasIdAndName(tasks_list[i]) =>
                \A other \in {ProcessProjectData(project_info_dict, Remove(tasks_list, i),
                                                  today)} :
                    /\ ret.st = other.st
                    /\ ret.exc = other.exc
                    /\ Returned_ =>
                        /\ RetStreamMap = other.val.stream_map.v
                        /\ RetDeps = other.val.dependencies.v
                        /\ Undated(RetTasks) = Undated(other.val.tasks.v)
                        /\ StartDateParses => RetTasks = other.val.tasks.v

\* A record with id 1 and no name, before a task whose predecessor field is
\* "1": the task is returned, without a dependency
C22_Witness ==
    /\ Processed /\ Returned_
    /\ Len(tasks_list) = 2
    /\ tasks_list[1].id = Int_(1) /\ tasks_list[1].name = Null
    /\ tasks_list[2].predecessors = Str("1")
    /\ Keys(RetTasks) = {Str("B")}
    /\ RetDeps = <<>>

\* C23: after add_global_start_end has added START and END to a graph, START
\* is the only node without an incoming edge and END the only node without an
\* outgoing edge, whatever the edges of the graph were.
C23_SingleEntryAndExit ==
    Augmenting =>
        /\ {node \in G.nodes : ~\E e \in G.edges : e[2] = node} = {START_NODE}
        /\ {node \in G.nodes : ~\E e \in G.edges : e[1] = node} = {END_NODE}

\* The nodes reached from the nodes S by at most n more edges
RECURSIVE Reach(_, _, _)
Reach(g, S, n) ==
    IF n = 0 THEN S
    ELSE Reach(g, S \cup {e[2] : e \in {d \in g.edges : d[1] \in S}}, n - 1)

\* No node of the graph is reached from itself
Acyclic(g) ==
    \A node \in g.nodes :
        node \notin Reach(g, {e[2] : e \in {d \in g.edges : d[1] = node}},
                          Cardinality(g.nodes))

\* C24: the graph of the task names and the dependencies process_project_data
\* returns has no cycle, and no dependency runs from a task to itself.
C24_DependenciesAcyclic ==
    Returned_ =>
        /\ \A i \in 1..Len(RetDeps) : RetDeps[i][1] # RetDeps[i][2]
        /\ Acyclic(BuildGraph(RetTasks, RetDeps))

\* C25: when process_project_data returns a synthetic start date and at least
\* one task, the earliest start instant of the returned tasks is today's
\* midnight.
C25_EarliestTaskToday ==
    Returned_ /\ ret.val.is_synthetic_start_date = Bool(TRUE) /\ RetTasks # <<>> =>
        /\ \E i \in 1..Len(RetTasks) : RetTasks[i].val.start = Dt(today)
        /\ \A i \in 1..Len(RetTasks) : RetTasks[i].val.start.n >= today

\* C26: for every non-empty graph without START and END and every task map,
\* also one in which no task carries a usable start or end instant,
\* add_global_start_end completes and gives START and END placement instants,
\* START's strictly before END's.
C26_BoundaryDatesAlwaysValid ==
    calls >= 1 /\ entry.G.nodes # {} /\ entry.G.nodes \cap Boundary = {} =>
        /\ added = [exc |-> "", value |-> "tuple"]
        /\ BoundaryEntries
        /\ StartDated < EndDated

\* The call of add_global_start_end inside the last plot_project_gantt is a
\* no-op: the graph built from the arguments is empty or holds START or END
NoOpInPlot ==
    /\ pc = "plotted"
    /\ plot.add_start_end_nodes
    /\ (Built.nodes = {} \/ Built.nodes \cap Boundary # {})

\* C27: plot_project_gantt called with add_start_end_nodes=True completes and
\* returns a figure whenever add_global_start_end is a no-op: the 'No tasks to
\* display' figure for an empty task map, the chart of the layout for a task
\* map that holds a task named START or END already.
C27_PlotCompletesOnNoOp ==
    NoOpInPlot =>
        /\ plot.exc = ""
        /\ plot.fig = (IF Built.nodes = {} THEN "empty" ELSE "chart")

UniqueNames ==
    \A i, j \in RegisteredRecords : tasks_list[i].name = tasks_list[j].name => i = j

\* The records of the list in the order p
Reordered(p) == [i \in 1..Len(tasks_list) |-> tasks_list[p[i]]]

Elements(seq) == {seq[i] : i \in 1..Len(seq)}

\* C29: predecessor ids are resolved after every record has been registered,
\* so for task records with unique ids and names the set of dependencies
\* process_project_data returns is the same for every order of the records.
C29_DependenciesWhateverTheOrder ==
    Processed /\ Returned_ /\ UniqueIds /\ UniqueNames =>
        \A p \in Permutations(1..Len(tasks_list)) :
            \A other \in {ProcessProjectData(project_info_dict, Reordered(p), today)} :
                /\ other.st = "returned"
                /\ Elements(other.val.dependencies.v) = Elements(RetDeps)

\* A task whose predecessor field names the id of the record after it: the
\* dependency is returned
C29_Witness ==
    /\ Processed /\ Returned_ /\ UniqueIds /\ UniqueNames
    /\ Len(tasks_list) = 2
    /\ tasks_list[1].predecessors = Str("2")
    /\ tasks_list[2].id = Int_(2)
    /\ RetDeps = << <<tasks_list[2].name, tasks_list[1].name>> >>

\* The place of a task in the returned task map
Place(name) == CHOOSE i \in 1..Len(RetTasks) : RetTasks[i].key = name

\* The names the id tokens stand for, token by token from the left: the name
\* of the last input task registered under the id, when it is not empty
RECURSIVE NamesOfTokens(_, _)
NamesOfTokens(pieces, n) ==
    IF n > Len(pieces) THEN <<>>
    ELSE LET named == Designated(pieces[n])
             name == IF named = {} THEN Null ELSE tasks_list[Max(named)].name
         IN (IF Truthy(name) THEN <<name>> ELSE <<>>) \o NamesOfTokens(pieces, n + 1)

\* The predecessors of a successor, in the order of the returned list
PredecessorsOf(successor) ==
    LET mine == SelectSeq(RetDeps, LAMBDA d : d[2] = successor)
    IN [n \in 1..Len(mine) |-> mine[n][1]]

\* C30: the dependency list process_project_data returns is ordered, not
\* sorted: the dependencies come grouped by successor, the successors in the
\* order of their insertion into the task map, and the dependencies of one
\* successor in the left-to-right order of the ids in its predecessor field.
C30_DependencyOrder ==
    Processed /\ Returned_ =>
        /\ \A m, n \in 1..Len(RetDeps) :
                m < n => Place(RetDeps[m][2]) <= Place(RetDeps[n][2])
        /\ \A i \in 1..Len(RetTasks) :
                LET pieces == Tokens(FieldOf(RetTasks[i]))
                IN PredecessorsOf(RetTasks[i].key)
                     = (IF \A n \in 1..Len(pieces) : IsIdToken(pieces[n])
                        THEN NamesOfTokens(pieces, 1) ELSE <<>>)

\* Task B, inserted before task A, with the field " 2 , 1": the dependencies
\* of B come first, from B and then from A, and the list is not sorted
C30_Witness ==
    /\ Processed /\ Returned_
    /\ Len(RetTasks) = 2
    /\ RetTasks[1].key = Str("B") /\ RetTasks[2].key = Str("A")
    /\ RetTasks[1].val.predecessors_str = Str(" 2 , 1")
    /\ RetDeps = << <<Str("B"), Str("B")>>, <<Str("A"), Str("B")>>, <<Str("B"), Str("A")>> >>

====
